---- MODULE Spec2Model ----
(***************************************************************************)
(* Model of the Deeplink Verification Server (server.py).                  *)
(*                                                                         *)
(* The server exposes one tool, check_deeplink.  An invocation binds the   *)
(* five arguments, reads REFRESH_TOKEN from the process environment,       *)
(* POSTs the arguments to the fixed upstream URL and maps the upstream     *)
(* outcome to a returned string.  The server may run several invocations   *)
(* at once; each one blocks only while the POST is in flight.              *)
(*                                                                         *)
(* Python values are modelled as follows.  A str is a TLA+ string.  An     *)
(* optional value (None or a str) is a sequence of length 0 or 1.  A       *)
(* parsed JSON value is a record tagged with its type.  An exception is a  *)
(* record carrying the set of classes it is an instance of.                *)
(***************************************************************************)
EXTENDS Integers, Sequences, FiniteSets, TLC

(* Number of invocations of the tool the model follows. *)
NumCalls == 2

Calls == 1..NumCalls

(* ----------------------------------------------------------------------- *)
(* Tool arguments                                                          *)
(* ----------------------------------------------------------------------- *)

(* The five parameters of check_deeplink, none of which has a default. *)
Fields == {"db_name", "user_id", "campaign_id", "date", "region"}

SampleArgs ==
    [db_name |-> "NDTVProfit", user_id |-> "u1", campaign_id |-> "c1",
     date |-> "2025-09-24", region |-> "DC1"]

(* sample request with field f left out of the call *)
Without(f) == [k \in Fields \ {f} |-> SampleArgs[k]]

(* sample request with field f given as the empty string *)
WithEmpty(f) == [SampleArgs EXCEPT ![f] = ""]

(* The argument sets a caller may send. *)
ArgSets ==
    {SampleArgs} \cup {Without(f) : f \in Fields}
                 \cup {WithEmpty(f) : f \in {"db_name", "region"}}

(* Binding of the call's arguments to the signature: the parameters that  *)
(* receive no value.  The annotation str accepts every string.            *)
MissingArgsNonEmpty(a) == {f \in Fields : f \notin DOMAIN a \/ a[f] = ""}

MissingArgs(a) == Fields \ DOMAIN a

(* ----------------------------------------------------------------------- *)
(* Environment                                                             *)
(* ----------------------------------------------------------------------- *)

None == <<>>

(* Values REFRESH_TOKEN can have in the process environment. *)
TokenValues == {None, <<"">>, <<"tok-1">>}

(* Python truthiness of an optional str: None and "" are falsy. *)
TruthyAlways(v) == TRUE

Truthy(v) == v # None /\ v[1] # ""

(* ----------------------------------------------------------------------- *)
(* Constants of check_deeplink                                             *)
(* ----------------------------------------------------------------------- *)

CHECK_URL == "https://intercom-api-gateway.moengage.com/v2/iw/check-deeplink"

TIMEOUT == 30

MsgNotConfigured == "Authentication token is not configured on the server."

MsgSuccess ==
    "Urls are matching, your deeplink is working correctly at clients end"

MsgUnknown == "An unknown error occurred, and no error message was provided."

MsgBadJson == "Failed to decode the JSON response from the server."

(* f"{v}" for an optional str *)
Format(v) == IF v = None THEN "None" ELSE v[1]

Headers(auth_token) ==
    ("Content-Type" :> "application/json")
        @@ ("Authorization" :> ("Bearer " \o Format(auth_token)))

(* payload = {"db_name": db_name, ...} *)
PayloadSwapped(a) ==
    [db_name |-> a["db_name"], user_id |-> a["campaign_id"],
     campaign_id |-> a["user_id"], date |-> a["date"],
     region |-> a["region"]]

Payload(a) ==
    [db_name |-> a["db_name"], user_id |-> a["user_id"],
     campaign_id |-> a["campaign_id"], date |-> a["date"],
     region |-> a["region"]]

(* ----------------------------------------------------------------------- *)
(* The upstream and the requests library                                   *)
(* ----------------------------------------------------------------------- *)

BodySuccess == "{\"status\": \"success\"}"

BodySuccessUrl == "{\"status\": \"success\", \"url\": \"https://a.example/x\"}"

BodyFailure ==
    "{\"status\": \"failure\", \"error_message\": \"Urls are not matching\"}"

BodyFailureBare == "{\"status\": \"failure\"}"

BodyNoStatus == "{\"error_message\": \"campaign not found\"}"

BodyArray == "[]"

BodyText == "Unauthorized"

Bodies ==
    {BodySuccess, BodySuccessUrl, BodyFailure, BodyFailureBare, BodyNoStatus,
     BodyArray, BodyText}

(* HTTP statuses the upstream answers with: success, a 3xx that is not    *)
(* followed, a client error and a server error.                           *)
StatusCodes == {200, 304, 401, 500}

(* What requests.post yields: a response, or a transport exception.  Every *)
(* body comes with status 200; the other statuses come with a JSON        *)
(* object, a JSON array and a body that is not JSON.                      *)
Upstreams ==
    { r \in [kind : {"response"}, status_code : StatusCodes, text : Bodies] :
        r.status_code = 200 \/ r.text \in {BodySuccess, BodyArray, BodyText} }
    \cup
    { [kind |-> "error", cls |-> "ConnectionError",
       str |-> "connection refused"],
      [kind |-> "error", cls |-> "ReadTimeout",
       str |-> "read timed out. (read timeout=30)"] }

(* requests releases differ in the class Response.json() raises: before   *)
(* 2.27 a plain json.JSONDecodeError, from 2.27 on                        *)
(* requests.exceptions.JSONDecodeError, which is also a RequestException. *)
RequestsVersions == {"2.26", "2.32"}

JSONDecodeErrorBases(version) ==
    IF version = "2.26"
    THEN {"JSONDecodeError", "ValueError", "Exception"}
    ELSE {"JSONDecodeError", "InvalidJSONError", "RequestException",
          "IOError", "ValueError", "Exception"}

Exc(cls, bases, str, status_code, text) ==
    [cls |-> cls, bases |-> bases, str |-> str,
     status_code |-> status_code, text |-> text]

Return(value) == [kind |-> "return", value |-> value]

Raise(exc) == [kind |-> "raise", exc |-> exc]

(* requests.post(...) raising a transport exception *)
TransportError(up) ==
    Exc(up.cls, {up.cls, "RequestException", "IOError", "Exception"},
        up.str, 0, "")

(* Response.raise_for_status(): raises for 4xx and 5xx only. *)
RaisesForStatus(status_code) == 400 <= status_code /\ status_code < 600

(* Response.json() on the bodies above; the value is tagged by its type. *)
NotJson == [type |-> "invalid"]

JsonLoads(text) ==
    CASE text = BodySuccess ->
           [type |-> "object", fields |-> [status |-> "success"]]
      [] text = BodySuccessUrl ->
           [type |-> "object",
            fields |-> [status |-> "success", url |-> "https://a.example/x"]]
      [] text = BodyFailure ->
           [type |-> "object",
            fields |-> [status |-> "failure",
                        error_message |-> "Urls are not matching"]]
      [] text = BodyFailureBare ->
           [type |-> "object", fields |-> [status |-> "failure"]]
      [] text = BodyNoStatus ->
           [type |-> "object",
            fields |-> [error_message |-> "campaign not found"]]
      [] text = BodyArray -> [type |-> "array"]
      [] OTHER -> NotJson

(* dict.get(key), with None for a missing key *)
DictGet(d, key) == IF key \in DOMAIN d THEN <<d[key]>> ELSE None

(* response_data.get("status") == "success" *)
IsSuccessNegated(d) == DictGet(d, "status") # <<"success">>

IsSuccess(d) == DictGet(d, "status") = <<"success">>

(* response_data.get("error_message", default) *)
ErrorMessageDefaultOnly(d) == MsgUnknown

ErrorMessage(d) ==
    IF "error_message" \in DOMAIN d THEN d["error_message"] ELSE MsgUnknown

(* The body of the try block, from the outcome of requests.post on. *)
TryBody(up, version) ==
    IF up.kind = "error" THEN Raise(TransportError(up))
    ELSE IF RaisesForStatus(up.status_code)
    THEN Raise(Exc("HTTPError",
                   {"HTTPError", "RequestException", "IOError", "Exception"},
                   "", up.status_code, up.text))
    ELSE LET response_data == JsonLoads(up.text) IN
         IF response_data = NotJson
         THEN Raise(Exc("JSONDecodeError", JSONDecodeErrorBases(version),
                        "Expecting value: line 1 column 1 (char 0)", 0, ""))
         ELSE IF response_data.type # "object"
         THEN Raise(Exc("AttributeError", {"AttributeError", "Exception"},
                        "'list' object has no attribute 'get'", 0, ""))
         ELSE IF IsSuccess(response_data.fields)
         THEN Return(MsgSuccess)
         ELSE Return(ErrorMessage(response_data.fields))

(* The except clauses, tried in the order they are written. *)
ExceptClauses(e) ==
    IF "HTTPError" \in e.bases
    THEN Return("HTTP Error: " \o ToString(e.status_code) \o " - " \o e.text)
    ELSE IF "RequestException" \in e.bases
    THEN Return("An error occurred while checking the deeplink: " \o e.str)
    ELSE IF "ValueError" \in e.bases
    THEN Return(MsgBadJson)
    ELSE Raise(e)

TryExcept(up, version) ==
    LET r == TryBody(up, version) IN
    IF r.kind = "raise" THEN ExceptClauses(r.exc) ELSE r

(* ----------------------------------------------------------------------- *)
(* State                                                                   *)
(* ----------------------------------------------------------------------- *)

VARIABLES
    environ,           \* os.environ: the value of REFRESH_TOKEN, or None
    requests_version,  \* the requests release the server runs with
    pc,                \* per call: "idle", "rejected", "waiting", "done"
    args,              \* per call: the arguments the caller sent
    auth_token,        \* per call: the local auth_token
    sent,              \* per call: the POSTs issued, in order
    upstream,          \* per call: what requests.post yielded
    outcome            \* per call: the value returned or exception raised

vars ==
    <<environ, requests_version, pc, args, auth_token, sent, upstream,
      outcome>>

NoArgs == [k \in {} |-> ""]

NoUpstream == [kind |-> "none"]

NoOutcome == [kind |-> "none"]

Init ==
    /\ environ \in [REFRESH_TOKEN : TokenValues]
    /\ requests_version \in RequestsVersions
    /\ pc = [c \in Calls |-> "idle"]
    /\ args = [c \in Calls |-> NoArgs]
    /\ auth_token = [c \in Calls |-> None]
    /\ sent = [c \in Calls |-> <<>>]
    /\ upstream = [c \in Calls |-> NoUpstream]
    /\ outcome = [c \in Calls |-> NoOutcome]

(* os.environ.get(name) *)
OsEnvironGet(name) == environ[name]

(* The reply of call c once requests.post has yielded up. *)
RespondAccumulating(c, up) ==
    LET r == TryExcept(up, requests_version)
        earlier == {d \in Calls \ {c} :
                       pc[d] = "done" /\ outcome[d].kind = "return"}
    IN  IF r.kind = "return" /\ earlier # {}
        THEN Return(outcome[CHOOSE d \in earlier : TRUE].value \o r.value)
        ELSE r

Respond(c, up) == TryExcept(up, requests_version)

(* ----------------------------------------------------------------------- *)
(* Actions                                                                 *)
(* ----------------------------------------------------------------------- *)

(* A call that leaves out a parameter never enters the function body. *)
Reject(c, a) ==
    /\ pc[c] = "idle"
    /\ MissingArgs(a) # {}
    /\ pc' = [pc EXCEPT ![c] = "rejected"]
    /\ args' = [args EXCEPT ![c] = a]
    /\ outcome' = [outcome EXCEPT ![c] =
           Raise(Exc("ValidationError", {"ValidationError", "Exception"},
                     "missing required argument", 0, ""))]
    /\ UNCHANGED <<environ, requests_version, auth_token, sent, upstream>>

(* check_deeplink up to the early return for a missing token. *)
InvokeNoToken(c, a) ==
    /\ pc[c] = "idle"
    /\ MissingArgs(a) = {}
    /\ ~Truthy(OsEnvironGet("REFRESH_TOKEN"))
    /\ pc' = [pc EXCEPT ![c] = "done"]
    /\ args' = [args EXCEPT ![c] = a]
    /\ auth_token' = [auth_token EXCEPT ![c] = OsEnvironGet("REFRESH_TOKEN")]
    /\ outcome' = [outcome EXCEPT ![c] = Return(MsgNotConfigured)]
    /\ UNCHANGED <<environ, requests_version, sent, upstream>>

(* check_deeplink up to the point where requests.post blocks. *)
InvokePost(c, a) ==
    /\ pc[c] = "idle"
    /\ MissingArgs(a) = {}
    /\ Truthy(OsEnvironGet("REFRESH_TOKEN"))
    /\ pc' = [pc EXCEPT ![c] = "waiting"]
    /\ args' = [args EXCEPT ![c] = a]
    /\ auth_token' = [auth_token EXCEPT ![c] = OsEnvironGet("REFRESH_TOKEN")]
    /\ sent' = [sent EXCEPT ![c] = Append(@,
           [url |-> CHECK_URL,
            headers |-> Headers(OsEnvironGet("REFRESH_TOKEN")),
            json |-> Payload(a),
            timeout |-> TIMEOUT])]
    /\ UNCHANGED <<environ, requests_version, upstream, outcome>>

(* requests.post yields, and the rest of check_deeplink runs. *)
Complete(c, up) ==
    /\ pc[c] = "waiting"
    /\ pc' = [pc EXCEPT ![c] = "done"]
    /\ upstream' = [upstream EXCEPT ![c] = up]
    /\ outcome' = [outcome EXCEPT ![c] = Respond(c, up)]
    /\ UNCHANGED <<environ, requests_version, args, auth_token, sent>>

(* The deployment changes REFRESH_TOKEN between calls. *)
SetEnviron(v) ==
    /\ environ["REFRESH_TOKEN"] # v
    /\ environ' = [environ EXCEPT !["REFRESH_TOKEN"] = v]
    /\ UNCHANGED <<requests_version, pc, args, auth_token, sent, upstream,
                   outcome>>

Next ==
    \/ \E c \in Calls, a \in ArgSets : Reject(c, a)
    \/ \E c \in Calls, a \in ArgSets : InvokeNoToken(c, a)
    \/ \E c \in Calls, a \in ArgSets : InvokePost(c, a)
    \/ \E c \in Calls, up \in Upstreams : Complete(c, up)
    \/ \E v \in TokenValues : SetEnviron(v)

Spec == Init /\ [][Next]_vars

TypeOK ==
    /\ environ \in [REFRESH_TOKEN : TokenValues]
    /\ requests_version \in RequestsVersions
    /\ pc \in [Calls -> {"idle", "rejected", "waiting", "done"}]
    /\ \A c \in Calls : Len(sent[c]) \in 0..1

(* ----------------------------------------------------------------------- *)
(* Properties                                                              *)
(* ----------------------------------------------------------------------- *)

Entered(c) == pc[c] \in {"waiting", "done"}

Answered(c) == pc[c] = "done" /\ upstream[c].kind = "response"

Is2xx(status_code) == 200 <= status_code /\ status_code < 300

HttpErrorText(up) ==
    "HTTP Error: " \o ToString(up.status_code) \o " - " \o up.text

(* the parsed body is a JSON object whose status field is "success" *)
SaysSuccess(up) ==
    LET j == JsonLoads(up.text) IN
    /\ j.type = "object"
    /\ "status" \in DOMAIN j.fields
    /\ j.fields["status"] = "success"

(* C1: a call that finds REFRESH_TOKEN absent returns the not-configured   *)
(* message and has issued no POST.                                        *)
C1_AbsentTokenNoPost ==
    \A c \in Calls :
        (Entered(c) /\ auth_token[c] = None)
            => /\ pc[c] = "done"
               /\ outcome[c] = Return(MsgNotConfigured)
               /\ sent[c] = <<>>

C1_Witness ==
    \E c \in Calls :
        /\ pc[c] = "done"
        /\ auth_token[c] = None
        /\ outcome[c] = Return(MsgNotConfigured)
        /\ sent[c] = <<>>

(* C2, as claimed: on HTTP 200 with status "success" the result carries    *)
(* the upstream body, so two calls answered with different success bodies *)
(* get different results.                                                 *)
C2_BodyRecoverable ==
    \A c, d \in Calls :
        ( /\ Answered(c) /\ Answered(d)
          /\ upstream[c].status_code = 200 /\ upstream[d].status_code = 200
          /\ SaysSuccess(upstream[c]) /\ SaysSuccess(upstream[d])
          /\ outcome[c] = outcome[d] )
            => JsonLoads(upstream[c].text) = JsonLoads(upstream[d].text)

(* C2, amended: on HTTP 200 with status "success" the result is the fixed  *)
(* success message, whatever else the upstream body holds.                *)
C2_SuccessMessage ==
    \A c \in Calls :
        ( /\ Answered(c)
          /\ upstream[c].status_code = 200
          /\ SaysSuccess(upstream[c]) )
            => outcome[c] = Return(MsgSuccess)

C2_Witness ==
    \E c \in Calls :
        /\ Answered(c)
        /\ upstream[c].status_code = 200
        /\ upstream[c].text = BodySuccessUrl
        /\ outcome[c] = Return(MsgSuccess)

(* C3: every answer whose status is not 2xx is returned as the HTTP error  *)
(* text with that status and the raw body.                                *)
C3_Non2xxIsHttpError ==
    \A c \in Calls :
        (Answered(c) /\ ~Is2xx(upstream[c].status_code))
            => outcome[c] = Return(HttpErrorText(upstream[c]))

(* C4: a 2xx answer whose body is not JSON is returned as the              *)
(* failed-to-decode message.                                              *)
C4_BadJsonMessage ==
    \A c \in Calls :
        ( /\ Answered(c)
          /\ Is2xx(upstream[c].status_code)
          /\ JsonLoads(upstream[c].text) = NotJson )
            => outcome[c] = Return(MsgBadJson)

(* C5: every invocation that has finished has returned a value; none has   *)
(* raised.                                                                *)
C5_AlwaysReturns ==
    \A c \in Calls : pc[c] = "done" => outcome[c].kind = "return"

(* C6: every POST carries exactly the five keys, each with the value the   *)
(* caller gave for it.                                                    *)
C6_PayloadIsRequest ==
    \A c \in Calls :
        \A i \in 1..Len(sent[c]) :
            /\ DOMAIN sent[c][i].json = Fields
            /\ \A k \in Fields : sent[c][i].json[k] = args[c][k]

C6_Witness ==
    \E c \in Calls :
        /\ Len(sent[c]) = 1
        /\ args[c] = SampleArgs
        /\ sent[c][1].json = SampleArgs

(* C7: two finished invocations with the same request, the same token read *)
(* and the same upstream outcome have the same result.                    *)
C7_SameInputsSameResult ==
    \A c, d \in Calls :
        ( /\ pc[c] = "done" /\ pc[d] = "done"
          /\ args[c] = args[d]
          /\ auth_token[c] = auth_token[d]
          /\ upstream[c] = upstream[d] )
            => outcome[c] = outcome[d]

C7_Witness ==
    \E c, d \in Calls :
        /\ c # d
        /\ Answered(c) /\ Answered(d)
        /\ args[c] = args[d]
        /\ auth_token[c] = auth_token[d]
        /\ upstream[c] = upstream[d]
        /\ outcome[c] = outcome[d]

Incomplete(a) == \E f \in Fields : f \notin DOMAIN a

HasEmpty(a) == \E f \in DOMAIN a : a[f] = ""

IsValidationError(o) == o.kind = "raise" /\ o.exc.cls = "ValidationError"

(* C8, as claimed: a request with an absent or an empty field is rejected  *)
(* with a validation error and no POST.                                   *)
C8_AbsentOrEmptyRejected ==
    \A c \in Calls :
        (pc[c] # "idle" /\ (Incomplete(args[c]) \/ HasEmpty(args[c])))
            => /\ pc[c] = "rejected"
               /\ IsValidationError(outcome[c])
               /\ sent[c] = <<>>

(* C8, amended: a request is rejected, with a validation error and no      *)
(* POST, exactly when one of the five fields is absent; an empty string   *)
(* is a value like any other.                                             *)
C8_AbsentRejected ==
    \A c \in Calls :
        pc[c] # "idle"
            => /\ Incomplete(args[c]) <=> pc[c] = "rejected"
               /\ pc[c] = "rejected"
                     => IsValidationError(outcome[c]) /\ sent[c] = <<>>

C8_Witness ==
    \E c, d \in Calls :
        /\ pc[c] = "rejected" /\ Incomplete(args[c])
        /\ IsValidationError(outcome[c]) /\ sent[c] = <<>>
        /\ HasEmpty(args[d]) /\ Len(sent[d]) = 1

(* the single attempt did not succeed *)
AttemptFailed(up) ==
    \/ up.kind = "error"
    \/ up.kind = "response" /\ ~Is2xx(up.status_code)
    \/ up.kind = "response" /\ JsonLoads(up.text) = NotJson

(* C9: an invocation issues at most one POST, and when that attempt fails  *)
(* the invocation returns a value.                                        *)
C9_OnePostFailureReturned ==
    \A c \in Calls :
        /\ Len(sent[c]) <= 1
        /\ (pc[c] = "done" /\ upstream[c] # NoUpstream
               /\ AttemptFailed(upstream[c]))
              => outcome[c].kind = "return"

(* the part of C9 about retries alone *)
AtMostOnePost == \A c \in Calls : Len(sent[c]) <= 1

====
